---- MODULE Spec2Model ----
(***************************************************************************)
(* The quote generator of dom-manipulation/script.js (the version with     *)
(* web storage, JSON import/export and the simulated server sync, lines    *)
(* 127-595), as a state machine.                                           *)
(*                                                                         *)
(* One action is one task of the browser's event loop: an event handler or *)
(* a timer callback together with every promise continuation it resumes.   *)
(* Quote fields are strings (spec section 3, "two string fields").         *)
(***************************************************************************)
EXTENDS Integers, Sequences, FiniteSets, TLC

Quote(t, c) == [text |-> t, category |-> c]

\* script.js 128-134
defaultQuotes ==
    << Quote("The only way to do great work is to love what you do.", "Inspiration"),
       Quote("Innovation distinguishes between a leader and a follower.", "Innovation"),
       Quote("The future belongs to those who believe in the beauty of their dreams.", "Dreams"),
       Quote("Strive not to be a success, but rather to be of value.", "Value"),
       Quote("The mind is everything. What you think you become.", "Mindset") >>

(***************************************************************************)
(* JavaScript values held by quotes and serverQuotes: an array of quote    *)
(* objects, or what JSON.parse gives for the stored texts "null" and "{}". *)
(***************************************************************************)
JsArray(items) == [kind |-> "array", items |-> items]
JsNull == [kind |-> "null", items |-> <<>>]
JsObject == [kind |-> "object", items |-> <<>>]

(***************************************************************************)
(* JSON text as a sequence of tokens.  "ws" is the white space that the    *)
(* indent argument of JSON.stringify inserts, "bad" a character that no    *)
(* JSON grammar rule accepts.                                              *)
(***************************************************************************)
Tok(k) == [tok |-> k, str |-> ""]
StrTok(s) == [tok |-> "string", str |-> s]

\* Parsed JSON values.
JNull == [kind |-> "null"]
JString(s) == [kind |-> "string", str |-> s]
JObject(keys, vals) == [kind |-> "object", keys |-> keys, vals |-> vals]
JArray(items) == [kind |-> "array", items |-> items]

Ws(indent) == IF indent THEN << Tok("ws") >> ELSE << >>

\* A faulty variant of the serialisation of a quote, which writes each field
\* under the key of the other.
StringifyQuoteSwapped(q, indent) ==
    << Tok("{") >> \o Ws(indent)
        \o << StrTok("text"), Tok(":") >> \o Ws(indent) \o << StrTok(q.category), Tok(",") >>
        \o Ws(indent)
        \o << StrTok("category"), Tok(":") >> \o Ws(indent) \o << StrTok(q.text) >>
        \o Ws(indent) \o << Tok("}") >>

\* JSON.stringify of one quote object { text, category }.
StringifyQuote(q, indent) ==
    << Tok("{") >> \o Ws(indent)
        \o << StrTok("text"), Tok(":") >> \o Ws(indent) \o << StrTok(q.text), Tok(",") >>
        \o Ws(indent)
        \o << StrTok("category"), Tok(":") >> \o Ws(indent) \o << StrTok(q.category) >>
        \o Ws(indent) \o << Tok("}") >>

RECURSIVE StringifyItems(_, _, _)
StringifyItems(items, i, indent) ==
    IF i > Len(items) THEN << >>
    ELSE (IF i > 1 THEN << Tok(",") >> ELSE << >>) \o Ws(indent)
            \o StringifyQuote(items[i], indent)
            \o StringifyItems(items, i + 1, indent)

\* JSON.stringify(value) and JSON.stringify(value, null, 2).
JSONstringify(value, indent) ==
    CASE value.kind = "null" -> << Tok("null") >>
      [] value.kind = "object" -> << Tok("{"), Tok("}") >>
      [] OTHER ->
            IF value.items = << >> THEN << Tok("["), Tok("]") >>
            ELSE << Tok("[") >> \o StringifyItems(value.items, 1, indent)
                    \o Ws(indent) \o << Tok("]") >>

RECURSIVE SkipWs(_, _)
SkipWs(toks, i) ==
    IF i <= Len(toks) /\ toks[i].tok = "ws" THEN SkipWs(toks, i + 1) ELSE i

ParseFail == [ok |-> FALSE, val |-> JNull, next |-> 0]
ParseOk(v, n) == [ok |-> TRUE, val |-> v, next |-> n]

RECURSIVE ParseValue(_, _)
RECURSIVE ParseElements(_, _, _)
RECURSIVE ParseMembers(_, _, _, _)

ParseValue(toks, i0) ==
    LET i == SkipWs(toks, i0) IN
    IF i > Len(toks) THEN ParseFail
    ELSE CASE toks[i].tok = "null" -> ParseOk(JNull, i + 1)
           [] toks[i].tok = "string" -> ParseOk(JString(toks[i].str), i + 1)
           [] toks[i].tok = "[" ->
                LET j == SkipWs(toks, i + 1) IN
                IF j <= Len(toks) /\ toks[j].tok = "]"
                THEN ParseOk(JArray(<< >>), j + 1)
                ELSE ParseElements(toks, i + 1, << >>)
           [] toks[i].tok = "{" ->
                LET j == SkipWs(toks, i + 1) IN
                IF j <= Len(toks) /\ toks[j].tok = "}"
                THEN ParseOk(JObject(<< >>, << >>), j + 1)
                ELSE ParseMembers(toks, i + 1, << >>, << >>)
           [] OTHER -> ParseFail

ParseElements(toks, i, acc) ==
    LET r == ParseValue(toks, i) IN
    IF ~r.ok THEN ParseFail
    ELSE LET j == SkipWs(toks, r.next) IN
         IF j > Len(toks) THEN ParseFail
         ELSE IF toks[j].tok = "," THEN ParseElements(toks, j + 1, Append(acc, r.val))
         ELSE IF toks[j].tok = "]" THEN ParseOk(JArray(Append(acc, r.val)), j + 1)
         ELSE ParseFail

ParseMembers(toks, i0, keys, vals) ==
    LET i == SkipWs(toks, i0) IN
    IF i > Len(toks) \/ toks[i].tok # "string" THEN ParseFail
    ELSE LET c == SkipWs(toks, i + 1) IN
         IF c > Len(toks) \/ toks[c].tok # ":" THEN ParseFail
         ELSE LET r == ParseValue(toks, c + 1) IN
              IF ~r.ok THEN ParseFail
              ELSE LET j == SkipWs(toks, r.next)
                       ks == Append(keys, toks[i].str)
                       vs == Append(vals, r.val)
                   IN IF j > Len(toks) THEN ParseFail
                      ELSE IF toks[j].tok = "," THEN ParseMembers(toks, j + 1, ks, vs)
                      ELSE IF toks[j].tok = "}" THEN ParseOk(JObject(ks, vs), j + 1)
                      ELSE ParseFail

\* JSON.parse(text): ok = FALSE stands for the SyntaxError it throws.
JSONparse(toks) ==
    LET r == ParseValue(toks, 1) IN
    IF r.ok /\ SkipWs(toks, r.next) = Len(toks) + 1
    THEN [ok |-> TRUE, val |-> r.val]
    ELSE [ok |-> FALSE, val |-> JNull]

\* 'key' in q, and q.key ("undefined" where q has no such key), for a parsed
\* object whose values are strings.
HasKey(v, key) == \E i \in 1..Len(v.keys) : v.keys[i] = key
Field(v, key) ==
    IF HasKey(v, key)
    THEN LET i == CHOOSE k \in 1..Len(v.keys) :
                     v.keys[k] = key /\ \A m \in (k + 1)..Len(v.keys) : v.keys[m] # key
         IN v.vals[i].str
    ELSE "undefined"

\* The quote object an element of a parsed array is used as.
AsQuote(v) == Quote(Field(v, "text"), Field(v, "category"))

RECURSIVE AsQuotes(_, _)
AsQuotes(vals, i) ==
    IF i > Len(vals) THEN << >> ELSE << AsQuote(vals[i]) >> \o AsQuotes(vals, i + 1)

\* The JavaScript value of a parsed JSON value (arrays hold quote objects).
FromJson(v) ==
    CASE v.kind = "array" -> JsArray(AsQuotes(v.items, 1))
      [] v.kind = "object" -> JsObject
      [] OTHER -> JsNull

\* JSON.parse(JSON.stringify(value)): the deep copy of script.js 280, 294, 308.
DeepCopy(value) == FromJson(JSONparse(JSONstringify(value, FALSE)).val)

(***************************************************************************)
(* State.                                                                  *)
(*   quotes, serverQuotes     the two global arrays (script.js 137, 141)   *)
(*   localStorageQuotes       localStorage item 'quotes'                   *)
(*   lastSelectedCategory     localStorage item 'lastSelectedCategory'     *)
(*   lastViewedQuoteIndex     sessionStorage item 'lastViewedQuoteIndex'   *)
(*   categoryFilter           the <select>: its value and its options      *)
(*                            besides the fixed first option 'all'         *)
(*   quoteDisplay             what the display element shows               *)
(*   notificationArea         text and class of the last notification      *)
(*   timers                   the pending 500 ms timeouts of the simulated *)
(*                            fetch and push, oldest first, each with the  *)
(*                            locals of the syncQuotes call that awaits it *)
(*   onload                   position of the window.onload handler:       *)
(*                            "start", "loaded" (loadQuotes has returned), *)
(*                            "syncing" (awaiting syncQuotes), "done", or  *)
(*                            "threw" (ended by an uncaught error)         *)
(*   syncInterval             whether setInterval(syncQuotes) is installed *)
(*   download                 the file written by the last export          *)
(*   uncaught                 handlers that ended with an uncaught error   *)
(*   storageFails             whether localStorage accesses throw          *)
(*   version                  the script the page runs: "sync" (script.js  *)
(*                            127-595), "first" (script.js 1-125) or       *)
(*                            "part_000" (unnamed/part_000)                *)
(***************************************************************************)
VARIABLES quotes, serverQuotes, localStorageQuotes, lastSelectedCategory,
          lastViewedQuoteIndex, categoryFilter, quoteDisplay, notificationArea,
          timers, onload, syncInterval, download, uncaught, storageFails,
          version

vars == << quotes, serverQuotes, localStorageQuotes, lastSelectedCategory,
           lastViewedQuoteIndex, categoryFilter, quoteDisplay, notificationArea,
           timers, onload, syncInterval, download, uncaught, storageFails, version >>

\* A storage item or a file: absent (getItem gives null), or a value.
NoItem == [has |-> FALSE, val |-> << >>]
Item(v) == [has |-> TRUE, val |-> v]
NoIndex == [has |-> FALSE, val |-> 0]
NoCategory == [has |-> FALSE, val |-> ""]

Notification(message, type) == [message |-> message, type |-> type]
NoDisplay == [kind |-> "empty", text |-> "", category |-> ""]
NoQuotesMessage == [kind |-> "noQuotes", text |-> "", category |-> ""]
Rendered(q) == [kind |-> "quote", text |-> q.text, category |-> q.category]

(***************************************************************************)
(* The functions of script.js as operators on the page state p: a record   *)
(* of the variables a function may write, with p.threw set when the        *)
(* function has thrown (the rest of the caller is then skipped up to the   *)
(* enclosing catch).                                                       *)
(***************************************************************************)
Page ==
    [quotes |-> quotes,
     localStorageQuotes |-> localStorageQuotes,
     lastSelectedCategory |-> lastSelectedCategory,
     lastViewedQuoteIndex |-> lastViewedQuoteIndex,
     categoryFilter |-> categoryFilter,
     quoteDisplay |-> quoteDisplay,
     notificationArea |-> notificationArea,
     threw |-> FALSE]

Throw(p) == [p EXCEPT !.threw = TRUE]
Caught(p) == [p EXCEPT !.threw = FALSE]

\* script.js 164-176 (the timeout only removes the 'show' class)
displayNotification(p, message, type) ==
    [p EXCEPT !.notificationArea = Notification(message, type)]

\* script.js 211-218
saveQuotes(p) ==
    IF storageFails
    THEN displayNotification(p, "Error saving data locally.", "error")
    ELSE [p EXCEPT !.localStorageQuotes = Item(JSONstringify(p.quotes, FALSE))]

\* A faulty variant of loadQuotes, whose catch reports the error and leaves
\* the list as it is.
loadQuotesKeepsList(p) ==
    LET fallback ==
            displayNotification(p, "Error loading local data. Using default quotes.", "error")
    IN IF storageFails THEN fallback
       ELSE IF p.localStorageQuotes.has /\ p.localStorageQuotes.val # << >>
       THEN LET parsed == JSONparse(p.localStorageQuotes.val) IN
            IF parsed.ok THEN [p EXCEPT !.quotes = FromJson(parsed.val)] ELSE fallback
       ELSE saveQuotes([p EXCEPT !.quotes = JsArray(defaultQuotes)])

\* Another faulty variant of loadQuotes, which does not save the default
\* quotes it starts from.
loadQuotesDoesNotSave(p) ==
    LET fallback ==
            [displayNotification(p, "Error loading local data. Using default quotes.", "error")
                EXCEPT !.quotes = JsArray(defaultQuotes)]
    IN IF storageFails THEN fallback
       ELSE IF p.localStorageQuotes.has /\ p.localStorageQuotes.val # << >>
       THEN LET parsed == JSONparse(p.localStorageQuotes.val) IN
            IF parsed.ok THEN [p EXCEPT !.quotes = FromJson(parsed.val)] ELSE fallback
       ELSE [p EXCEPT !.quotes = JsArray(defaultQuotes)]

\* script.js 186-204
loadQuotes(p) ==
    LET fallback ==
            [displayNotification(p, "Error loading local data. Using default quotes.", "error")
                EXCEPT !.quotes = JsArray(defaultQuotes)]
    IN IF storageFails THEN fallback
       ELSE IF p.localStorageQuotes.has /\ p.localStorageQuotes.val # << >>
       THEN LET parsed == JSONparse(p.localStorageQuotes.val) IN
            IF parsed.ok THEN [p EXCEPT !.quotes = FromJson(parsed.val)] ELSE fallback
       ELSE saveQuotes([p EXCEPT !.quotes = JsArray(defaultQuotes)])

\* A faulty variant of saveLastViewedQuoteIndex, which stores the position
\* counted from 1.
saveLastViewedQuoteIndexFromOne(p, index) ==
    [p EXCEPT !.lastViewedQuoteIndex = [has |-> TRUE, val |-> index + 1]]

\* script.js 225-231
saveLastViewedQuoteIndex(p, index) ==
    [p EXCEPT !.lastViewedQuoteIndex = [has |-> TRUE, val |-> index]]

\* script.js 251-257
saveLastSelectedCategory(p, category) ==
    IF storageFails THEN p
    ELSE [p EXCEPT !.lastSelectedCategory = [has |-> TRUE, val |-> category]]

\* script.js 263-270
loadLastSelectedCategory(p) ==
    IF storageFails THEN NoCategory ELSE p.lastSelectedCategory

\* Math.floor(Math.random() * n), Math.random() being rnd / RandomResolution
RandomResolution == 2
RandomIndex(rnd, n) == (rnd * n) \div RandomResolution

\* A faulty variant of the filter, which keeps every quote.
FilterKeepsAll(items, category) == items

FilterByCategory(items, category) ==
    SelectSeq(items, LAMBDA q : q.category = category)

\* script.js 368-437.  Indices are those of JavaScript (from 0).  The
\* elements of the array are distinct objects, so quotes.indexOf(selectedQuote)
\* is the index the quote was taken from.
showRandomQuote(p, rnd) ==
    LET cleared == [p EXCEPT !.quoteDisplay = NoDisplay]
        selectedCategory == p.categoryFilter.value
        items == p.quotes.items
        quotesToDisplay ==
            IF selectedCategory = "all" THEN items
            ELSE FilterByCategory(items, selectedCategory)
        lastIndex == p.lastViewedQuoteIndex
        randomIndex ==
            IF selectedCategory = "all"
            THEN IF lastIndex.has /\ lastIndex.val >= 0 /\ lastIndex.val < Len(items)
                 THEN lastIndex.val
                 ELSE RandomIndex(rnd, Len(items))
            ELSE RandomIndex(rnd, Len(quotesToDisplay))
        selectedQuote == quotesToDisplay[randomIndex + 1]
        shown == [cleared EXCEPT !.quoteDisplay = Rendered(selectedQuote)]
    IN IF p.threw THEN p
       ELSE IF p.quotes.kind # "array" THEN Throw(cleared)
       ELSE IF Len(quotesToDisplay) = 0
       THEN saveLastViewedQuoteIndex(
                [cleared EXCEPT !.quoteDisplay = NoQuotesMessage], -1)
       ELSE IF selectedCategory = "all"
       THEN saveLastViewedQuoteIndex(shown, randomIndex)
       ELSE [shown EXCEPT !.lastViewedQuoteIndex = NoIndex]

\* script.js 396, 399: whether showRandomQuote calls Math.random()
CallsRandom(p) ==
    LET selectedCategory == p.categoryFilter.value
        lastIndex == p.lastViewedQuoteIndex
    IN /\ ~p.threw
       /\ p.quotes.kind = "array"
       /\ IF selectedCategory = "all"
          THEN /\ Len(p.quotes.items) > 0
               /\ ~(lastIndex.has /\ lastIndex.val >= 0
                        /\ lastIndex.val < Len(p.quotes.items))
          ELSE Len(FilterByCategory(p.quotes.items, selectedCategory)) > 0

\* The values Math.random() can take where showRandomQuote is called in p
\* (one value where it is not called).
Draws(p) == IF CallsRandom(p) THEN 0..(RandomResolution - 1) ELSE {0}

Categories(items) == { items[i].category : i \in 1..Len(items) }

\* script.js 443-463
populateCategories(p) ==
    LET categories == Categories(p.quotes.items)
        last == loadLastSelectedCategory(p)
        selected ==
            IF last.has /\ last.val # "" /\ (last.val \in categories \/ last.val = "all")
            THEN last.val ELSE "all"
    IN IF p.threw THEN p
       ELSE IF p.quotes.kind # "array" THEN Throw(p)
       ELSE [p EXCEPT !.categoryFilter = [value |-> selected, options |-> categories]]

\* script.js 470-474
filterQuotes(p, rnd) ==
    IF p.threw THEN p
    ELSE showRandomQuote(saveLastSelectedCategory(p, p.categoryFilter.value), rnd)

(***************************************************************************)
(* syncQuotes (script.js 318-357).  Its two awaits end at the 500 ms       *)
(* timeouts of fetchQuotesFromServer and pushQuotesToServer; timeouts of   *)
(* equal delay fire in the order they were set, so the pending ones form a *)
(* queue.  The simulated fetch and push stand for network requests: either *)
(* may also fail, which rejects the awaited promise (the case the catch of *)
(* lines 353-356 is written for).                                          *)
(***************************************************************************)
SamePair(a, b) == a.text = b.text /\ a.category = b.category

\* Two faulty variants of the test of lines 327-329, against which the
\* properties of the merge are checked to fail: one looks at the last local
\* record only; the other compares the objects, not their fields (a fetched
\* record is a fresh copy, identical to no local record).
ExistsLocallyLast(items, serverQuote) ==
    items # << >> /\ SamePair(items[Len(items)], serverQuote)

ExistsLocallyByIdentity(items, serverQuote) == FALSE

\* A third faulty variant looks at the first local record only.
ExistsLocallyFirst(items, serverQuote) ==
    items # << >> /\ SamePair(items[1], serverQuote)

\* script.js 327-329
ExistsLocally(items, serverQuote) ==
    \E k \in 1..Len(items) : SamePair(items[k], serverQuote)

\* script.js 325-336: the forEach over remoteQuotes, from its i-th element on
RECURSIVE MergeFrom(_, _, _, _)
MergeFrom(items, remote, i, changes) ==
    IF i > Len(remote) THEN [items |-> items, changesDetected |-> changes]
    ELSE IF ExistsLocally(items, remote[i])
    THEN MergeFrom(items, remote, i + 1, changes)
    ELSE MergeFrom(Append(items, remote[i]), remote, i + 1, TRUE)

\* A faulty variant of the merge, which puts the records it takes from the
\* server in front of the local ones.
MergeRemoteServerFirst(items, remote) ==
    LET m == MergeFrom(items, remote, 1, FALSE) IN
    [items |-> SubSeq(m.items, Len(items) + 1, Len(m.items)) \o items,
     changesDetected |-> m.changesDetected]

MergeRemote(items, remote) == MergeFrom(items, remote, 1, FALSE)

\* A pending timeout: the await it resumes, the local changesDetected of that
\* syncQuotes call, and the caller that awaits the call ("none" for the Sync
\* button and the interval, which do nothing after it).
Fetching(caller) == [stage |-> "fetch", caller |-> caller, changesDetected |-> FALSE]
Pushing(caller, changes) == [stage |-> "push", caller |-> caller, changesDetected |-> changes]

\* script.js 319-321 and 289-291: up to the first await
syncQuotesBegin(p) == displayNotification(p, "Syncing data...", "info")

\* A faulty variant of the catch of lines 353-356, which rethrows the error
\* after it has reported it.
syncQuotesCatchRethrows(p) ==
    Throw(displayNotification(p, "Sync failed. Please try again later.", "error"))

\* Another faulty variant of the catch, which saves the list.
syncQuotesCatchSaves(p) ==
    displayNotification(saveQuotes(Caught(p)), "Sync failed. Please try again later.", "error")

\* script.js 353-356
syncQuotesCatch(p) ==
    displayNotification(Caught(p), "Sync failed. Please try again later.", "error")

\* script.js 322-336: TRUE when the merge throws a TypeError (quotes or the
\* fetched value is not an array)
MergeThrows(p, remote) ==
    remote.kind # "array" \/ (remote.items # << >> /\ p.quotes.kind # "array")

\* A faulty variant of lines 344-351, which saves the list on both branches.
syncQuotesEndAlwaysSaves(p, changesDetected, rnd) ==
    IF changesDetected
    THEN LET q == showRandomQuote(populateCategories(saveQuotes(p)), rnd) IN
         displayNotification(q,
                "Data synced successfully! New quotes added from server.", "success")
    ELSE displayNotification(saveQuotes(p),
                "Data synced. No new quotes from server.", "success")

\* script.js 344-351, after the push has resolved
syncQuotesEnd(p, changesDetected, rnd) ==
    IF changesDetected
    THEN LET q == showRandomQuote(populateCategories(saveQuotes(p)), rnd) IN
         IF q.threw THEN syncQuotesCatch(q)
         ELSE displayNotification(q,
                "Data synced successfully! New quotes added from server.", "success")
    ELSE displayNotification(p, "Data synced. No new quotes from server.", "success")

SyncEndDraws(p, changesDetected) ==
    IF changesDetected THEN Draws(populateCategories(saveQuotes(p))) ELSE {0}

(***************************************************************************)
(* What the caller of syncQuotes does once the call has returned: the rest *)
(* of window.onload (590-594), of createAddQuoteForm (503) and of the      *)
(* import handler (561, 565-568).  The button and the interval do nothing. *)
(***************************************************************************)
AfterSync(p, caller, rnd) ==
    CASE caller = "onload" -> filterQuotes(populateCategories(p), rnd)
      [] caller = "add" -> showRandomQuote(p, rnd)
      [] caller = "import" ->
            LET q == showRandomQuote(p, rnd) IN
            IF q.threw
            THEN displayNotification(Caught(q),
                    "Failed to import quotes. Please ensure the file is a valid JSON format.",
                    "error")
            ELSE q
      [] OTHER -> p

\* The page in which AfterSync calls showRandomQuote.
AfterSyncShows(p, caller) ==
    IF caller = "onload"
    THEN (IF populateCategories(p).threw THEN Throw(p)
          ELSE saveLastSelectedCategory(populateCategories(p),
                                        populateCategories(p).categoryFilter.value))
    ELSE IF caller \in {"add", "import"} THEN p ELSE Throw(p)

\* The new values of the page variables, and of the bookkeeping of a caller
\* whose handler has just ended.
Commit(p) ==
    /\ quotes' = p.quotes
    /\ localStorageQuotes' = p.localStorageQuotes
    /\ lastSelectedCategory' = p.lastSelectedCategory
    /\ lastViewedQuoteIndex' = p.lastViewedQuoteIndex
    /\ categoryFilter' = p.categoryFilter
    /\ quoteDisplay' = p.quoteDisplay
    /\ notificationArea' = p.notificationArea

Finish(p, caller) ==
    /\ Commit(p)
    /\ onload' = IF caller = "onload" THEN (IF p.threw THEN "threw" ELSE "done") ELSE onload
    /\ syncInterval' = IF caller = "onload" /\ ~p.threw THEN TRUE ELSE syncInterval
    /\ uncaught' = IF p.threw THEN uncaught \cup {caller} ELSE uncaught

\* Bounds: the pending timeouts at a time, the length of the list after a user
\* add, and the times the list may hold a pair after the user has added it.
MaxTimers == 2
MaxQuotes == 6
MaxRepeats == 2

Occurrences(items, q) == Cardinality({ k \in 1..Len(items) : SamePair(items[k], q) })

(***************************************************************************)
(* What the environment supplies: the texts typed into the two inputs, the *)
(* files chosen for import, and what an earlier session left in storage.   *)
(***************************************************************************)
TypedTexts == { "", "Carpe diem", "  Carpe diem " }
TypedCategories == { "   ", " Latin" }

\* String.prototype.trim on the typed texts
Trim(s) ==
    CASE s = "   " -> ""
      [] s = "  Carpe diem " -> "Carpe diem"
      [] s = " Latin" -> "Latin"
      [] OTHER -> s

\* The options the user picks in the filter.
FilterChoices == { "all", "Latin", "" }

carpe == Quote("Carpe diem", "Latin")
festina == Quote("Festina lente", "Latin")

ArrayText(items) == JSONstringify(JsArray(items), FALSE)

EmptyFile == << >>
NotJsonFile == << Tok("bad") >>
NotArrayFile == << Tok("{"), Tok("}") >>
NullElementFile ==
    << Tok("[") >> \o StringifyQuote(festina, FALSE) \o << Tok(","), Tok("null"), Tok("]") >>
MissingKeyFile ==
    << Tok("[") >> \o StringifyQuote(festina, FALSE)
        \o << Tok(","), Tok("{"), StrTok("text"), Tok(":"), StrTok("Festina lente"),
              Tok("}"), Tok("]") >>
\* a hand-written array in which a pair occurs twice
FestinaFile == ArrayText(<< festina, defaultQuotes[1], festina >>)
\* the file an earlier session exported when its list was carpe, carpe
EarlierExport == JSONstringify(JsArray(<< carpe, carpe >>), TRUE)

BadFiles == { EmptyFile, NotJsonFile, NotArrayFile, NullElementFile, MissingKeyFile }
ImportFiles == BadFiles \cup { FestinaFile, EarlierExport }

\* What an earlier session has left in the two storages (fails: localStorage
\* throws on every access).
Session(stored, category, index, fails) ==
    [quotes |-> stored, category |-> category, index |-> index, fails |-> fails]

FirstVisit == Session(NoItem, NoCategory, NoIndex, FALSE)
Returning ==
    Session(Item(ArrayText(<< carpe >>)), [has |-> TRUE, val |-> "Latin"],
            [has |-> TRUE, val |-> 1], FALSE)
EmptyList == Session(Item(ArrayText(<< >>)), NoCategory, NoIndex, FALSE)
StoredPartial ==
    Session(Item(ArrayText(<< defaultQuotes[3], carpe >>)), NoCategory, NoIndex, FALSE)
\* Tabs whose session storage holds an index of an earlier page: one of the
\* list to come, one past its end, and the -1 of a render with no quote.
IndexStale ==
    Session(Item(ArrayText(<< carpe >>)), NoCategory, [has |-> TRUE, val |-> 1], FALSE)
IndexPastEnd == Session(NoItem, NoCategory, [has |-> TRUE, val |-> 9], FALSE)
IndexMinusOne == Session(NoItem, NoCategory, [has |-> TRUE, val |-> -1], FALSE)
StoredObject == Session(Item(<< Tok("{"), Tok("}") >>), NoCategory, NoIndex, FALSE)
StoredNull == Session(Item(<< Tok("null") >>), NoCategory, NoIndex, FALSE)
StoredGarbage == Session(Item(<< Tok("bad") >>), NoCategory, NoIndex, FALSE)
StoredEmptyText == Session(Item(<< >>), NoCategory, NoIndex, FALSE)
NoStorage == Session(NoItem, NoCategory, NoIndex, TRUE)

AllSessions ==
    { FirstVisit, Returning, EmptyList, StoredObject, StoredNull, StoredGarbage,
      StoredEmptyText, NoStorage }

\* The page when script.js has been evaluated (137, 141; index.html 162-165)
\* and window.onload has not run yet.
InitIn(sessions) ==
    /\ quotes = JsArray(<< >>)
    /\ serverQuotes = JsArray(<< >>)
    /\ \E session \in sessions :
          /\ storageFails = session.fails
          /\ localStorageQuotes = session.quotes
          /\ lastSelectedCategory = session.category
          /\ lastViewedQuoteIndex = session.index
    /\ categoryFilter = [value |-> "all", options |-> {}]
    /\ quoteDisplay = NoDisplay
    /\ notificationArea = Notification("", "")
    /\ timers = << >>
    /\ onload = "start"
    /\ syncInterval = FALSE
    /\ download = NoItem
    /\ uncaught = {}
    /\ version = "sync"

Init == InitIn({ FirstVisit, Returning, StoredObject })

\* script.js 278-282
initializeServerQuotes == DeepCopy(JsArray(defaultQuotes))

\* script.js 289-295, when the timeout fires
fetchQuotesFromServer == DeepCopy(serverQuotes)

\* A faulty variant of the push, which sends the last record of the list only.
pushLastQuoteOnly ==
    IF quotes.items = << >> THEN JsArray(<< >>)
    ELSE JsArray(<< quotes.items[Len(quotes.items)] >>)

\* script.js 304-310, when the timeout fires: clientQuotes is the array quotes
\* itself, as it is then
pushQuotesToServer == DeepCopy(quotes)

\* script.js 583-585: window.onload up to the return of loadQuotes
WindowOnLoad ==
    /\ version = "sync"
    /\ onload = "start"
    /\ serverQuotes' = initializeServerQuotes
    /\ Commit(loadQuotes(Page))
    /\ onload' = "loaded"
    /\ UNCHANGED << timers, syncInterval, download, uncaught, storageFails, version >>

\* script.js 588: window.onload goes on, in the same task, up to the await
\* inside syncQuotes
InitialSync ==
    /\ onload = "loaded"
    /\ Commit(syncQuotesBegin(Page))
    /\ timers' = Append(timers, Fetching("onload"))
    /\ onload' = "syncing"
    /\ UNCHANGED << serverQuotes, syncInterval, download, uncaught, storageFails, version >>

\* Events are handled once the task of window.onload has reached its await.
Ready == version = "sync" /\ onload \notin {"start", "loaded"}

\* script.js 321-342: the fetch resolves, the merge runs, the push is started
FetchMerges ==
    /\ timers # << >> /\ Head(timers).stage = "fetch"
    /\ LET remote == fetchQuotesFromServer
           m == MergeRemote(quotes.items, remote.items)
       IN /\ ~MergeThrows(Page, remote)
          /\ quotes' = IF remote.items = << >> THEN quotes ELSE JsArray(m.items)
          /\ timers' = Append(Tail(timers),
                    Pushing(Head(timers).caller, m.changesDetected))
    /\ UNCHANGED << serverQuotes, localStorageQuotes, lastSelectedCategory,
                    lastViewedQuoteIndex, categoryFilter, quoteDisplay,
                    notificationArea, onload, syncInterval, download, uncaught,
                    storageFails, version >>

\* script.js 321-336, 353-356: the fetch resolves and the merge throws
FetchMergeThrows ==
    /\ timers # << >> /\ Head(timers).stage = "fetch"
    /\ MergeThrows(Page, fetchQuotesFromServer)
    /\ \E rnd \in Draws(AfterSyncShows(syncQuotesCatch(Page), Head(timers).caller)) :
          Finish(AfterSync(syncQuotesCatch(Page), Head(timers).caller, rnd),
                 Head(timers).caller)
    /\ timers' = Tail(timers)
    /\ UNCHANGED << serverQuotes, download, storageFails, version >>

\* script.js 321, 353-356: the fetch fails
FetchFails ==
    /\ timers # << >> /\ Head(timers).stage = "fetch"
    /\ \E rnd \in Draws(AfterSyncShows(syncQuotesCatch(Page), Head(timers).caller)) :
          Finish(AfterSync(syncQuotesCatch(Page), Head(timers).caller, rnd),
                 Head(timers).caller)
    /\ timers' = Tail(timers)
    /\ UNCHANGED << serverQuotes, download, storageFails, version >>

\* script.js 342-351: the push resolves
PushCompletes ==
    /\ timers # << >> /\ Head(timers).stage = "push"
    /\ serverQuotes' = pushQuotesToServer
    /\ \E rnd1 \in SyncEndDraws(Page, Head(timers).changesDetected) :
          LET p == syncQuotesEnd(Page, Head(timers).changesDetected, rnd1) IN
          \E rnd2 \in Draws(AfterSyncShows(p, Head(timers).caller)) :
              Finish(AfterSync(p, Head(timers).caller, rnd2), Head(timers).caller)
    /\ timers' = Tail(timers)
    /\ UNCHANGED << download, storageFails, version >>

\* script.js 342, 353-356: the push fails
PushFails ==
    /\ timers # << >> /\ Head(timers).stage = "push"
    /\ \E rnd \in Draws(AfterSyncShows(syncQuotesCatch(Page), Head(timers).caller)) :
          Finish(AfterSync(syncQuotesCatch(Page), Head(timers).caller, rnd),
                 Head(timers).caller)
    /\ timers' = Tail(timers)
    /\ UNCHANGED << serverQuotes, download, storageFails, version >>

\* A faulty variant of the call, which cancels the calls in flight.
StartSyncCancelling(caller) ==
    /\ Len(timers) < MaxTimers
    /\ Commit(syncQuotesBegin(Page))
    /\ timers' = << Fetching(caller) >>
    /\ UNCHANGED << serverQuotes, onload, syncInterval, download, uncaught,
                    storageFails, version >>

\* A call of syncQuotes by an event that does nothing after it.
StartSync(caller) ==
    /\ Len(timers) < MaxTimers
    /\ Commit(syncQuotesBegin(Page))
    /\ timers' = Append(timers, Fetching(caller))
    /\ UNCHANGED << serverQuotes, onload, syncInterval, download, uncaught,
                    storageFails, version >>

\* script.js 594: a tick of setInterval(syncQuotes, SYNC_INTERVAL_MS)
IntervalTick == syncInterval /\ StartSync("none")

\* script.js 580: a click on the Sync button
ClickSync == Ready /\ StartSync("none")

\* script.js 579: a click on the Show New Quote button
ClickNewQuote ==
    /\ Ready
    /\ \E rnd \in Draws(Page) :
          LET p == showRandomQuote(Page, rnd) IN
          /\ Commit(p)
          /\ uncaught' = IF p.threw THEN uncaught \cup {"newQuote"} ELSE uncaught
    /\ UNCHANGED << serverQuotes, timers, onload, syncInterval, download, storageFails, version >>

\* index.html 162: the user selects another option of the filter
ChangeFilter ==
    /\ Ready
    /\ \E c \in (FilterChoices \cap ({"all"} \cup categoryFilter.options))
                    \ {categoryFilter.value} :
       \E rnd \in Draws([Page EXCEPT !.categoryFilter.value = c]) :
          LET p == filterQuotes([Page EXCEPT !.categoryFilter.value = c], rnd) IN
          /\ Commit(p)
          /\ uncaught' = IF p.threw THEN uncaught \cup {"filter"} ELSE uncaught
    /\ UNCHANGED << serverQuotes, timers, onload, syncInterval, download, storageFails, version >>

\* A faulty variant of the test of line 484, with && in the place of ||.
FieldsBothMissing(text, category) == text = "" /\ category = ""

\* script.js 484 (and 96)
FieldsMissing(text, category) == text = "" \/ category = ""

\* A faulty variant of the push of line 489, which leaves out a record whose
\* pair the list holds.
PushIfAbsent(items, newQuote) ==
    IF \E k \in 1..Len(items) : SamePair(items[k], newQuote)
    THEN items ELSE Append(items, newQuote)

\* Another faulty variant, which puts the new record in front of the list.
UnshiftNewQuote(items, newQuote) == << newQuote >> \o items

\* script.js 489: quotes.push(newQuote)
PushNewQuote(items, newQuote) == Append(items, newQuote)

\* A faulty variant of the add, which starts no sync.
createAddQuoteFormNoSync(typedText, typedCategory) ==
    /\ Ready
    /\    LET text == Trim(typedText)
              category == Trim(typedCategory)
              pushed == [Page EXCEPT
                            !.quotes = JsArray(PushNewQuote(quotes.items, Quote(text, category)))]
              added == displayNotification(populateCategories(saveQuotes(pushed)),
                            "Quote added locally. Syncing...", "info")
          IN IF FieldsMissing(text, category)
             THEN /\ Commit(displayNotification(Page,
                            "Both quote text and category are required!", "error"))
                  /\ UNCHANGED << timers, uncaught >>
             ELSE IF quotes.kind # "array"
             THEN /\ uncaught' = uncaught \cup {"add"}
                  /\ UNCHANGED << quotes, localStorageQuotes, lastSelectedCategory,
                                  lastViewedQuoteIndex, categoryFilter, quoteDisplay,
                                  notificationArea, timers >>
             ELSE /\ Len(quotes.items) < MaxQuotes
                  /\ Occurrences(quotes.items, Quote(text, category)) < MaxRepeats
                  /\ Len(timers) < MaxTimers
                  /\ Commit(syncQuotesBegin(added))
                  /\ timers' = timers
                  /\ UNCHANGED uncaught
    /\ UNCHANGED << serverQuotes, onload, syncInterval, download, storageFails, version >>

\* script.js 480-502: createAddQuoteForm up to the await inside syncQuotes,
\* with what the two inputs hold
createAddQuoteForm(typedText, typedCategory) ==
    /\ Ready
    /\    LET text == Trim(typedText)
              category == Trim(typedCategory)
              pushed == [Page EXCEPT
                            !.quotes = JsArray(PushNewQuote(quotes.items, Quote(text, category)))]
              added == displayNotification(populateCategories(saveQuotes(pushed)),
                            "Quote added locally. Syncing...", "info")
          IN IF FieldsMissing(text, category)
             THEN /\ Commit(displayNotification(Page,
                            "Both quote text and category are required!", "error"))
                  /\ UNCHANGED << timers, uncaught >>
             ELSE IF quotes.kind # "array"
             THEN /\ uncaught' = uncaught \cup {"add"}
                  /\ UNCHANGED << quotes, localStorageQuotes, lastSelectedCategory,
                                  lastViewedQuoteIndex, categoryFilter, quoteDisplay,
                                  notificationArea, timers >>
             ELSE /\ Len(quotes.items) < MaxQuotes
                  /\ Occurrences(quotes.items, Quote(text, category)) < MaxRepeats
                  /\ Len(timers) < MaxTimers
                  /\ Commit(syncQuotesBegin(added))
                  /\ timers' = Append(timers, Fetching("add"))
                  /\ UNCHANGED uncaught
    /\ UNCHANGED << serverQuotes, onload, syncInterval, download, storageFails, version >>

\* index.html 197: a click on the Add Quote button
ClickAdd ==
    \E typedText \in TypedTexts, typedCategory \in TypedCategories :
        createAddQuoteForm(typedText, typedCategory)

\* script.js 511-529
exportToJsonFile == JSONstringify(quotes, TRUE)

ClickExport ==
    /\ Ready
    /\ download' = Item(exportToJsonFile)
    /\ Commit(displayNotification(Page,
            "Quotes exported successfully as quotes.json!", "success"))
    /\ UNCHANGED << serverQuotes, timers, onload, syncInterval, uncaught, storageFails, version >>

\* A faulty variant of the test of line 547 on an element, which forgets the
\* category key.
IsQuoteObjectTextOnly(v) == v.kind = "object" /\ HasKey(v, "text")

\* script.js 547: the test on the parsed file
IsQuoteObject(v) == v.kind = "object" /\ HasKey(v, "text") /\ HasKey(v, "category")
IsQuoteArray(v) ==
    v.kind = "array" /\ \A i \in 1..Len(v.items) : IsQuoteObject(v.items[i])

\* A faulty variant of the test of lines 549-551, which finds no record.
ExistsNever(items, newQuote) == FALSE

\* script.js 549-551
Exists(items, newQuote) ==
    \E k \in 1..Len(items) : SamePair(items[k], newQuote)

\* A faulty variant of the loop of lines 548-555, which puts the imported
\* records in the place of the list.
ImportFromReplaces(items, imported, i) == imported

\* Another faulty variant of the loop, which tests each record of the file
\* against the list as it was before the import.
ImportFromOriginal(items, imported, i) ==
    items \o SelectSeq(imported, LAMBDA r : ~Exists(items, r))

\* script.js 548-555: the forEach over importedQuotes, from its i-th element on
RECURSIVE ImportFrom(_, _, _)
ImportFrom(items, imported, i) ==
    IF i > Len(imported) THEN items
    ELSE IF Exists(items, imported[i]) THEN ImportFrom(items, imported, i + 1)
    ELSE ImportFrom(Append(items, imported[i]), imported, i + 1)

\* script.js 543-569: the onload handler of the FileReader, up to the await
\* inside syncQuotes; sync tells whether syncQuotes was called
importFromJsonFile(p, fileText) ==
    LET parsed == JSONparse(fileText)
        failed(q) ==
            [page |-> displayNotification(Caught(q),
                        "Failed to import quotes. Please ensure the file is a valid JSON format.",
                        "error"),
             sync |-> FALSE]
        importedQuotes == AsQuotes(parsed.val.items, 1)
        pushed ==
            IF importedQuotes = << >> THEN p
            ELSE [p EXCEPT !.quotes = JsArray(ImportFrom(p.quotes.items, importedQuotes, 1))]
        saved == populateCategories(saveQuotes(pushed))
    IN IF ~parsed.ok THEN failed(p)
       ELSE IF ~IsQuoteArray(parsed.val)
       THEN [page |-> displayNotification(p,
                        "Invalid JSON file format. Expected array of objects with text and category.",
                        "error"),
             sync |-> FALSE]
       ELSE IF importedQuotes # << >> /\ p.quotes.kind # "array" THEN failed(p)
       ELSE IF saved.threw THEN failed(saved)
       ELSE [page |-> syncQuotesBegin(displayNotification(saved,
                        "Quotes imported successfully! Syncing...", "success")),
             sync |-> TRUE]

\* The files the user can choose: the prepared ones and the last export.
ChoosableFiles == ImportFiles \cup (IF download.has THEN {download.val} ELSE {})

\* index.html 184, script.js 536-574: the file is chosen and read
\* A faulty variant of the import, which starts no sync.
ImportOfNoSync(fileText) ==
    /\ Ready
    /\ LET r == importFromJsonFile(Page, fileText) IN
          /\ r.sync => Len(timers) < MaxTimers
          /\ Commit(r.page)
          /\ timers' = timers
    /\ UNCHANGED << serverQuotes, onload, syncInterval, download, uncaught, storageFails, version >>

ImportOf(fileText) ==
    /\ Ready
    /\ LET r == importFromJsonFile(Page, fileText) IN
          /\ r.sync => Len(timers) < MaxTimers
          /\ Commit(r.page)
          /\ timers' = IF r.sync THEN Append(timers, Fetching("import")) ELSE timers
    /\ UNCHANGED << serverQuotes, onload, syncInterval, download, uncaught, storageFails, version >>

ImportFile == \E fileText \in ChoosableFiles : ImportOf(fileText)

\* script.js 570-573: the file cannot be read
ImportReadError ==
    /\ Ready
    /\ Commit(displayNotification(Page, "Error reading file. Please try again.", "error"))
    /\ UNCHANGED << serverQuotes, timers, onload, syncInterval, download, uncaught,
                    storageFails, version >>

Next ==
    \/ WindowOnLoad
    \/ InitialSync
    \/ FetchMerges
    \/ FetchMergeThrows
    \/ PushCompletes
    \/ IntervalTick
    \/ ClickSync
    \/ ClickNewQuote
    \/ ChangeFilter
    \/ ClickAdd
    \/ ClickExport
    \/ ImportFile
    \/ ImportReadError

Spec == Init /\ [][Next]_vars

\* Start-up and synchronisation from every stored state.
StartupNext ==
    \/ WindowOnLoad
    \/ InitialSync
    \/ FetchMerges
    \/ FetchMergeThrows
    \/ PushCompletes
    \/ IntervalTick
    \/ ClickSync
    \/ ClickAdd

StartupSpec == InitIn(AllSessions) /\ [][StartupNext]_vars

\* Import and export, from a stored empty list and from a stored value that
\* is no list.
ImportNext ==
    \/ WindowOnLoad
    \/ InitialSync
    \/ FetchMerges
    \/ FetchMergeThrows
    \/ PushCompletes
    \/ ClickSync
    \/ ClickAdd
    \/ ClickExport
    \/ ImportFile
    \/ ImportReadError

ImportSpec == InitIn({ EmptyList, StoredObject }) /\ [][ImportNext]_vars

\* Start-up, synchronisation and import with a network that can fail.
FailureNext ==
    \/ WindowOnLoad
    \/ InitialSync
    \/ FetchMerges
    \/ FetchMergeThrows
    \/ FetchFails
    \/ PushCompletes
    \/ PushFails
    \/ IntervalTick
    \/ ClickSync
    \/ ClickAdd
    \/ ImportFile

FailureSpec == InitIn(AllSessions) /\ [][FailureNext]_vars

(***************************************************************************)
(* The merge step on its own: a page whose start-up has ended, holding any *)
(* local list, and a server holding any remote list, both of at most       *)
(* MaxListLen records out of MergeQuotes.  Two of those records share      *)
(* their text and two their category.  Calls of syncQuotes are started and *)
(* their merges run; no push resolves, so the remote list stays the same.  *)
(***************************************************************************)
MaxListLen == 2
motto == Quote("Carpe diem", "Motto")
MergeQuotes == { carpe, motto, festina }

RECURSIVE ListsUpTo(_)
ListsUpTo(n) ==
    IF n = 0 THEN { << >> }
    ELSE LET shorter == ListsUpTo(n - 1) IN
         shorter \cup { Append(l, q) : l \in { x \in shorter : Len(x) = n - 1 },
                                       q \in MergeQuotes }

MergeInit ==
    /\ \E local \in ListsUpTo(MaxListLen), remote \in ListsUpTo(MaxListLen) :
          /\ quotes = JsArray(local)
          /\ serverQuotes = JsArray(remote)
          /\ localStorageQuotes = Item(ArrayText(local))
          /\ categoryFilter = [value |-> "all", options |-> Categories(local)]
          /\ quoteDisplay = IF local = << >> THEN NoQuotesMessage ELSE Rendered(local[1])
          /\ lastViewedQuoteIndex = [has |-> TRUE, val |-> IF local = << >> THEN -1 ELSE 0]
    /\ lastSelectedCategory = [has |-> TRUE, val |-> "all"]
    /\ notificationArea = Notification("", "")
    /\ timers = << >>
    /\ onload = "done"
    /\ syncInterval = TRUE
    /\ download = NoItem
    /\ uncaught = {}
    /\ storageFails = FALSE
    /\ version = "sync"

MergeNext == ClickSync \/ IntervalTick \/ FetchMerges

MergeSpec == MergeInit /\ [][MergeNext]_vars

(***************************************************************************)
(* Properties                                                              *)
(***************************************************************************)
NoDuplicatePairs(items) ==
    \A i, j \in 1..Len(items) : SamePair(items[i], items[j]) => i = j

IsPrefix(s, t) == Len(s) <= Len(t) /\ SubSeq(t, 1, Len(s)) = s

PendingPushes == { k \in 1..Len(timers) : timers[k].stage = "push" }

\* C1: the merge step of syncQuotes, run on a local list in which no two
\* records share their (text, category) pair and on any remote list, leaves a
\* local list in which no two records share their pair.
C1_MergeKeepsPairsUnique ==
    [][(FetchMerges /\ NoDuplicatePairs(quotes.items))
            => NoDuplicatePairs(quotes'.items)]_vars

\* A merge has appended from a remote list that repeats a pair, and the local
\* list holds that pair once.
C1_Witness ==
    /\ \E k \in PendingPushes : timers[k].changesDetected
    /\ ~NoDuplicatePairs(serverQuotes.items)
    /\ NoDuplicatePairs(quotes.items)
    /\ \A i \in 1..Len(serverQuotes.items) :
          Occurrences(quotes.items, serverQuotes.items[i]) = 1

\* C2: the merge step of syncQuotes is idempotent: whatever the local and the
\* remote list, a merge of the remote list that an earlier merge has already
\* merged appends nothing and detects no change.
C2_MergeIdempotent ==
    [][(FetchMerges /\ PendingPushes # {})
            => /\ quotes' = quotes
               /\ ~timers'[Len(timers')].changesDetected]_vars

\* The same remote list has been merged twice: the first merge appended, the
\* second did not.
C2_Witness ==
    /\ Len(timers) = 2
    /\ timers[1].stage = "push" /\ timers[1].changesDetected
    /\ timers[2].stage = "push" /\ ~timers[2].changesDetected
    /\ Len(quotes.items) > Len(serverQuotes.items)

ImportPending == timers # << >> /\ timers[Len(timers)] = Fetching("import")

\* C3: when the imported file is empty, is not JSON, is not an array, or holds
\* an element that is not a non-null object with a text and a category key,
\* importFromJsonFile leaves the list and the stored list as they were, shows
\* an error notification, starts no sync and does not throw.
C3_BadImportLeavesList ==
    [][\A fileText \in BadFiles :
          ImportOf(fileText)
            => /\ quotes' = quotes
               /\ localStorageQuotes' = localStorageQuotes
               /\ notificationArea'.type = "error"
               /\ timers' = timers
               /\ uncaught' = uncaught]_vars

\* A file whose first element is a valid quote and whose second is not has
\* been refused, and the valid quote is not in the list.
C3_Witness ==
    /\ notificationArea.message =
          "Invalid JSON file format. Expected array of objects with text and category."
    /\ quotes.kind = "array"
    /\ Len(quotes.items) > 0
    /\ Occurrences(quotes.items, festina) = 0

\* C4: the import of the file that exportToJsonFile has written from the
\* list, into the session whose list is still that list, leaves the list as
\* it is, as seen when the import step has run and its sync has not.
C4_ExportImportSameSession ==
    [][(download = Item(exportToJsonFile) /\ ImportOf(exportToJsonFile))
            => quotes' = quotes]_vars

\* The export of a list of several records has been imported with success:
\* the import's sync is pending, and the list holds none of the records that
\* the other valid files would have added.
C4_Witness ==
    /\ download = Item(exportToJsonFile)
    /\ ImportPending
    /\ Len(quotes.items) > 1
    /\ Occurrences(quotes.items, festina) = 0
    /\ Occurrences(quotes.items, carpe) = 0

\* The list a file was exported from, for a file that exportToJsonFile can
\* have written.
IsExport(fileText) ==
    /\ JSONparse(fileText).ok
    /\ IsQuoteArray(JSONparse(fileText).val)
    /\ fileText = JSONstringify(FromJson(JSONparse(fileText).val), TRUE)
ExportedList(fileText) == FromJson(JSONparse(fileText).val).items

RECURSIVE Pick(_, _, _)
Pick(items, keep, i) ==
    IF i > Len(items) THEN << >>
    ELSE (IF i \in keep THEN << items[i] >> ELSE << >>) \o Pick(items, keep, i + 1)

\* The records of a list whose pair no earlier record of the list has.
FirstOccurrences(items) ==
    Pick(items,
         { i \in 1..Len(items) : \A j \in 1..(i - 1) : ~SamePair(items[j], items[i]) },
         1)

\* C5 as stated: the import, into an empty list, of the file exported from a
\* list L reproduces L: same records, same order, same length.
C5_ImportReproducesExport ==
    [][\A fileText \in ChoosableFiles :
          (quotes = JsArray(<< >>) /\ IsExport(fileText) /\ ImportOf(fileText))
            => quotes'.items = ExportedList(fileText)]_vars

\* C5, amended: the import, into an empty list, of the file exported from a
\* list L gives the records of L whose pair no earlier record of L has, in the
\* order of L (which is L where no pair is repeated in L).
C5_ImportGivesFirstOccurrences ==
    [][\A fileText \in ChoosableFiles :
          (quotes = JsArray(<< >>) /\ IsExport(fileText) /\ ImportOf(fileText))
            => quotes'.items = FirstOccurrences(ExportedList(fileText))]_vars

\* The export of the list carpe, carpe has been imported into the empty list.
C5_Witness ==
    /\ quotes.items = << carpe >>
    /\ timers = << Fetching("onload"), Fetching("import") >>

C7_AppendOnly ==
    [][onload # "start"
            => /\ quotes'.kind = quotes.kind
               /\ IsPrefix(quotes.items, quotes'.items)]_vars

\* The stored list (carpe) has grown by a user add, by a merge and by an
\* import, and its records are where they were.
C7_Witness ==
    /\ Len(quotes.items) = 8
    /\ SubSeq(quotes.items, 1, 2) = << carpe, carpe >>
    /\ SubSeq(quotes.items, 3, 7) = defaultQuotes
    /\ quotes.items[8] = festina

\* C8 as stated: if reading local storage throws or the stored text cannot be
\* parsed as JSON, loadQuotes does not throw, sets the list to a copy of the
\* default quotes and shows an error notification.
C8_UnparseableGivesDefaultsAndError ==
    [][(WindowOnLoad
            /\ (storageFails
                    \/ (localStorageQuotes.has /\ ~JSONparse(localStorageQuotes.val).ok)))
            => /\ onload' = "loaded"
               /\ uncaught' = uncaught
               /\ quotes' = JsArray(defaultQuotes)
               /\ notificationArea'.type = "error"]_vars

\* C8, amended: if reading local storage throws or the stored text is not
\* empty and cannot be parsed as JSON, loadQuotes does not throw, sets the list
\* to a copy of the default quotes and shows an error notification; an empty
\* stored text is handled as an absent one (default quotes, saved, and no
\* notification).
C8_LoadFailureGivesDefaultsAndError ==
    [][WindowOnLoad
            => /\ (storageFails
                      \/ (/\ localStorageQuotes.has
                          /\ localStorageQuotes.val # << >>
                          /\ ~JSONparse(localStorageQuotes.val).ok))
                    => /\ onload' = "loaded"
                       /\ uncaught' = uncaught
                       /\ quotes' = JsArray(defaultQuotes)
                       /\ notificationArea' =
                            Notification("Error loading local data. Using default quotes.",
                                         "error")
               /\ (~storageFails /\ localStorageQuotes = Item(<< >>))
                    => /\ onload' = "loaded"
                       /\ quotes' = JsArray(defaultQuotes)
                       /\ localStorageQuotes' = Item(ArrayText(defaultQuotes))
                       /\ notificationArea' = notificationArea]_vars

\* loadQuotes has returned from its catch: the stored text was not JSON.
C8_Witness ==
    /\ onload = "loaded"
    /\ ~storageFails
    /\ localStorageQuotes = Item(<< Tok("bad") >>)
    /\ quotes = JsArray(defaultQuotes)
    /\ notificationArea.type = "error"

\* C9 as stated: whatever is stored under the 'quotes' key, the window.onload
\* handler runs to its end: when its initial sync has finished, the filter is
\* populated, a quote or the no-quotes message is rendered and the periodic
\* sync is installed.
C9_StartupRunsToEnd ==
    onload \notin {"start", "loaded", "syncing"}
        => /\ onload = "done"
           /\ "onload" \notin uncaught
           /\ quoteDisplay.kind \in {"quote", "noQuotes"}
           /\ syncInterval

SyncFailed == Notification("Sync failed. Please try again later.", "error")

\* C10: when the fetch or the push of a syncQuotes call fails, the call shows
\* the 'Sync failed' error notification and returns to its caller, which goes
\* on; it sets no timeout for a retry, and the periodic sync stays installed.
C10_SyncFailureCaught ==
    [][(FetchFails \/ PushFails)
            => /\ notificationArea' = SyncFailed
               /\ timers' = Tail(timers)
               /\ syncInterval => syncInterval'
               /\ quotes.kind = "array"
                    => /\ uncaught' = uncaught
                       /\ Head(timers).caller = "onload"
                            => (onload' = "done" /\ syncInterval')]_vars

\* The initial sync has failed, and window.onload has run to its end.
C10_Witness ==
    /\ notificationArea = SyncFailed
    /\ quotes.kind = "array"
    /\ onload = "done"
    /\ syncInterval
    /\ timers = << >>
    /\ uncaught = {}
    /\ serverQuotes = JsArray(defaultQuotes)
    /\ quotes.items = << carpe >>

\* The indexes that Math.floor(Math.random() * n) can give.
DrawnIndexes(n) == { RandomIndex(rnd, n) : rnd \in 0..(RandomResolution - 1) }

\* C11 as stated: with the filter on 'all' and a list of two or more quotes,
\* every quote that a random draw can select can be the one that a call of
\* showRandomQuote displays, whichever quote the call before has displayed.
C11_AnyQuoteCanBeShown ==
    (Ready /\ quotes.kind = "array" /\ categoryFilter.value = "all"
           /\ Len(quotes.items) >= 2)
        => \A index \in DrawnIndexes(Len(quotes.items)) :
              ENABLED (/\ ClickNewQuote
                       /\ quoteDisplay' = Rendered(quotes.items[index + 1])
                       /\ lastViewedQuoteIndex' = [has |-> TRUE, val |-> index])

(***************************************************************************)
(* The two earlier versions of the page: script.js 1-125 ("first"), whose  *)
(* list is not stored and not synchronised, and unnamed/part_000, whose    *)
(* select (categorySelect) holds the categories of the list only and whose *)
(* display shows the text of a quote.  Both report through alert(), kept   *)
(* in notificationArea with the type "alert".                              *)
(***************************************************************************)
MaxAdded == 2
EarlyTypedTexts == TypedTexts \cup { "Festina lente" }

\* part_000 2-6
partQuotes ==
    << Quote("The best way to predict the future is to invent it.", "Motivation"),
       Quote("Life is what happens when you're busy making other plans.", "Life"),
       Quote("Do not take life too seriously. You will never get out of it alive.", "Humor") >>

\* script.js 2-8, part_000 2-6
InitialQuotes == IF version = "first" THEN defaultQuotes ELSE partQuotes

PleaseEnterBoth == Notification("Please enter both a quote and a category.", "alert")

\* script.js 29-76
showRandomQuoteFirst(p, rnd) ==
    IF Len(p.quotes.items) = 0
    THEN [p EXCEPT !.quoteDisplay = NoQuotesMessage]
    ELSE [p EXCEPT !.quoteDisplay =
                Rendered(p.quotes.items[RandomIndex(rnd, Len(p.quotes.items)) + 1])]

\* part_000 15-24: the select shows its first option after it is rebuilt
updateCategoryOptions(p) ==
    [p EXCEPT !.categoryFilter =
        [value |-> IF p.quotes.items = << >> THEN "" ELSE p.quotes.items[1].category,
         options |-> Categories(p.quotes.items)]]

\* part_000 27-38
displayRandomQuote(p, rnd) ==
    LET filteredQuotes == FilterByCategory(p.quotes.items, p.categoryFilter.value) IN
    IF Len(filteredQuotes) = 0
    THEN [p EXCEPT !.quoteDisplay = NoQuotesMessage]
    ELSE [p EXCEPT !.quoteDisplay =
                [kind |-> "quote",
                 text |-> filteredQuotes[RandomIndex(rnd, Len(filteredQuotes)) + 1].text,
                 category |-> ""]]

EarlyInit ==
    /\ version \in { "first", "part_000" }
    /\ quotes = JsArray(InitialQuotes)
    /\ serverQuotes = JsArray(<< >>)
    /\ localStorageQuotes = NoItem
    /\ lastSelectedCategory = NoCategory
    /\ lastViewedQuoteIndex = NoIndex
    /\ categoryFilter = [value |-> "all", options |-> {}]
    /\ quoteDisplay = NoDisplay
    /\ notificationArea = Notification("", "")
    /\ timers = << >>
    /\ onload = "start"
    /\ syncInterval = FALSE
    /\ download = NoItem
    /\ uncaught = {}
    /\ storageFails = FALSE

\* script.js 125 (window.onload = showRandomQuote) and part_000 60
\* (updateCategoryOptions() at the end of the script)
EarlyLoad ==
    /\ version # "sync"
    /\ onload = "start"
    /\ \E rnd \in 0..(RandomResolution - 1) :
          Commit(IF version = "first" THEN showRandomQuoteFirst(Page, rnd)
                 ELSE updateCategoryOptions(Page))
    /\ onload' = "done"
    /\ UNCHANGED << serverQuotes, timers, syncInterval, download, uncaught,
                    storageFails, version >>

\* script.js 121 and part_000 57: a click on the Show New Quote button
EarlyShow ==
    /\ version # "sync"
    /\ onload = "done"
    /\ \E rnd \in 0..(RandomResolution - 1) :
          Commit(IF version = "first" THEN showRandomQuoteFirst(Page, rnd)
                 ELSE displayRandomQuote(Page, rnd))
    /\ UNCHANGED << serverQuotes, timers, onload, syncInterval, download, uncaught,
                    storageFails, version >>

\* part_000: the user selects another option of categorySelect
SelectCategory ==
    /\ version = "part_000"
    /\ onload = "done"
    /\ \E c \in categoryFilter.options \ {categoryFilter.value} :
          categoryFilter' = [categoryFilter EXCEPT !.value = c]
    /\ UNCHANGED << quotes, serverQuotes, localStorageQuotes, lastSelectedCategory,
                    lastViewedQuoteIndex, quoteDisplay, notificationArea, timers,
                    onload, syncInterval, download, uncaught, storageFails, version >>

\* script.js 90-117: addQuote of the first version, with what the inputs hold
addQuoteFirst(typedText, typedCategory) ==
    /\ version = "first"
    /\ onload = "done"
    /\ LET text == Trim(typedText)
           category == Trim(typedCategory)
           pushed == [Page EXCEPT
                         !.quotes = JsArray(Append(quotes.items, Quote(text, category)))]
       IN IF FieldsMissing(text, category)
          THEN Commit(displayNotification(Page, PleaseEnterBoth.message, "alert"))
          ELSE /\ Len(quotes.items) < Len(InitialQuotes) + MaxAdded
               /\ \E rnd \in 0..(RandomResolution - 1) :
                     Commit(showRandomQuoteFirst(pushed, rnd))
    /\ UNCHANGED << serverQuotes, timers, onload, syncInterval, download, uncaught,
                    storageFails, version >>

\* part_000 41-54: addQuote, with what the inputs hold (an empty string is
\* the only falsy string)
addQuotePart(typedText, typedCategory) ==
    /\ version = "part_000"
    /\ onload = "done"
    /\ LET newQuoteText == Trim(typedText)
           newQuoteCategory == Trim(typedCategory)
           pushed == [Page EXCEPT
                         !.quotes = JsArray(Append(quotes.items,
                                        Quote(newQuoteText, newQuoteCategory)))]
       IN IF newQuoteText # "" /\ newQuoteCategory # ""
          THEN /\ Len(quotes.items) < Len(InitialQuotes) + MaxAdded
               /\ Commit(displayNotification(updateCategoryOptions(pushed),
                            "New quote added successfully!", "alert"))
          ELSE Commit(displayNotification(Page, PleaseEnterBoth.message, "alert"))
    /\ UNCHANGED << serverQuotes, timers, onload, syncInterval, download, uncaught,
                    storageFails, version >>

EarlyAdd ==
    \E typedText \in EarlyTypedTexts, typedCategory \in TypedCategories :
        \/ addQuoteFirst(typedText, typedCategory)
        \/ addQuotePart(typedText, typedCategory)

\* The add operation of the three versions.
AddNext ==
    \/ EarlyLoad
    \/ EarlyShow
    \/ SelectCategory
    \/ EarlyAdd
    \/ WindowOnLoad
    \/ InitialSync
    \/ FetchMerges
    \/ PushCompletes
    \/ ClickAdd

AddSpec == (EarlyInit \/ InitIn({ FirstVisit, Returning })) /\ [][AddNext]_vars

BothRequired == Notification("Both quote text and category are required!", "error")

\* What C12 says of a step of an add whose inputs hold typedText and
\* typedCategory, told being how the version tells that both are required.
AddOutcome(typedText, typedCategory, told) ==
    IF Trim(typedText) = "" \/ Trim(typedCategory) = ""
    THEN /\ quotes' = quotes
         /\ notificationArea' = told
         /\ localStorageQuotes' = localStorageQuotes
         /\ timers' = timers
    ELSE quotes'.items =
            Append(quotes.items, Quote(Trim(typedText), Trim(typedCategory)))

\* C12: in every version of the add operation, when the trimmed text or the
\* trimmed category is empty the list is left as it is, the user is told that
\* both are required, nothing is stored and no sync is started; when both are
\* non-empty the record of the trimmed text and the trimmed category, and no
\* other, is appended at the end of the list.
C12_AddValidates ==
    [][\A typedText \in EarlyTypedTexts, typedCategory \in TypedCategories :
          /\ (createAddQuoteForm(typedText, typedCategory) /\ quotes.kind = "array")
                => AddOutcome(typedText, typedCategory, BothRequired)
          /\ addQuoteFirst(typedText, typedCategory)
                => AddOutcome(typedText, typedCategory, PleaseEnterBoth)
          /\ addQuotePart(typedText, typedCategory)
                => AddOutcome(typedText, typedCategory, PleaseEnterBoth)]_vars

\* In the first version a quote typed with spaces around it has been added
\* trimmed, and an add with an empty field has then been refused.
C12_Witness ==
    /\ version = "first"
    /\ quotes.items = Append(defaultQuotes, carpe)
    /\ notificationArea = PleaseEnterBoth

(***************************************************************************)
(* The list and the server under every interleaving of syncs (start-up,    *)
(* periodic and manual), user adds and imports, from the stored values     *)
(* that are lists.                                                         *)
(***************************************************************************)
SyncNext ==
    \/ WindowOnLoad
    \/ InitialSync
    \/ FetchMerges
    \/ PushCompletes
    \/ IntervalTick
    \/ ClickSync
    \/ ClickAdd
    \/ ImportFile

SyncSpec == InitIn({ FirstVisit, Returning, EmptyList }) /\ [][SyncNext]_vars

\* C13: a user add enforces no uniqueness: createAddQuoteForm with non-empty
\* fields appends its record whether or not the list holds a record of the
\* same pair, so the list grows by one at every valid add; the merge of a sync
\* and the import of a file add no record whose pair the list holds.
C13_AddEnforcesNoUniqueness ==
    [][/\ \A typedText \in TypedTexts, typedCategory \in TypedCategories :
            (/\ createAddQuoteForm(typedText, typedCategory)
             /\ Trim(typedText) # "" /\ Trim(typedCategory) # "")
                => LET newQuote == Quote(Trim(typedText), Trim(typedCategory)) IN
                   /\ Len(quotes'.items) = Len(quotes.items) + 1
                   /\ Occurrences(quotes'.items, newQuote)
                        = Occurrences(quotes.items, newQuote) + 1
       /\ (FetchMerges \/ ImportFile)
            => \A k \in 1..Len(quotes.items) :
                  Occurrences(quotes'.items, quotes.items[k])
                    = Occurrences(quotes.items, quotes.items[k])]_vars

\* The user has added the pair that the stored list held, and the list holds
\* it twice.
C13_Witness ==
    /\ quotes.items = << carpe, carpe >>
    /\ timers # << >>
    /\ timers[Len(timers)] = Fetching("add")

AddPushCompletes == PushCompletes /\ Head(timers).caller = "add"

\* C14 as stated: the write to the server that follows an add carries the
\* added quote and no other record of the list, and the add does not wait for
\* it (no call of createAddQuoteForm is suspended on a sync).
C14_AddWritesOneItemUnawaited ==
    [][/\ AddPushCompletes
            => /\ Len(pushQuotesToServer.items) = 1
               /\ pushQuotesToServer.items[1] \in { carpe }
       /\ \A k \in 1..Len(timers') : timers'[k].caller # "add"]_vars

\* C14, amended: the write to the server that follows an add is the push of
\* the sync that the add starts: it carries the whole list as it then is, and
\* the server list becomes a copy of it; the add is suspended on that sync
\* from its click until the push has resolved.
C14_AddPushesWholeListAwaited ==
    [][/\ AddPushCompletes
            => /\ pushQuotesToServer = quotes
               /\ serverQuotes' = quotes
               /\ Len(serverQuotes'.items) > 1
       /\ \A typedText \in TypedTexts, typedCategory \in TypedCategories :
            (/\ createAddQuoteForm(typedText, typedCategory)
             /\ Trim(typedText) # "" /\ Trim(typedCategory) # "")
                => timers' = Append(timers, Fetching("add"))
       /\ \A k \in 1..Len(timers) :
            (timers[k].caller = "add" /\ ~(k = 1 /\ PushCompletes))
                => \E j \in 1..Len(timers') : timers'[j].caller = "add"]_vars

\* The push of the sync of an add has resolved: nothing is pending, and the
\* server list is the default quotes and the added quote.
C14_Witness ==
    /\ timers = << >>
    /\ serverQuotes.items = Append(defaultQuotes, carpe)
    /\ quotes = serverQuotes

(***************************************************************************)
(* Calls of syncQuotes that run one at a time: a sync, an add or an import *)
(* starts only when no timeout is pending, so nothing happens between the  *)
(* start of a call, its merge and its push.                                *)
(***************************************************************************)
Idle == timers = << >>

SoloNext ==
    \/ WindowOnLoad
    \/ InitialSync
    \/ FetchMerges
    \/ PushCompletes
    \/ Idle /\ IntervalTick
    \/ Idle /\ ClickSync
    \/ Idle /\ ClickAdd
    \/ Idle /\ ImportFile

SoloSpec ==
    InitIn({ FirstVisit, Returning, EmptyList, StoredPartial }) /\ [][SoloNext]_vars

\* The records of remote of which no record of items has the text and the
\* category, in the order of remote.
AbsentLocally(items, remote) ==
    SelectSeq(remote, LAMBDA r : \A k \in 1..Len(items) : ~SamePair(items[k], r))

\* C15: a call of syncQuotes that runs with nothing interleaved ends with the
\* local list the old local list followed by the old server records whose
\* (text, category) pair was absent locally, in server order, and with the
\* server list a copy of that new local list.  Nothing runs between the start
\* of the call and its merge, nor between its merge and its push: the merge
\* appends the absent server records, in order, to the list of the start and
\* leaves the server list; the push leaves the local list and makes the server
\* list a copy of it.
C15_SoloSyncMergesThenOverwrites ==
    [][/\ FetchMerges
            => /\ quotes'.items =
                      quotes.items \o AbsentLocally(quotes.items, serverQuotes.items)
               /\ serverQuotes' = serverQuotes
               /\ timers'[1].stage = "push"
       /\ PushCompletes
            => /\ quotes' = quotes
               /\ serverQuotes' = quotes
               /\ timers' = << >>
       /\ (timers # << >> /\ timers[1].stage = "fetch") => Len(timers) = 1]_vars

\* A sync has run alone on the stored list [defaultQuotes[3], carpe]: the four
\* other default quotes follow the stored records, in their order, and the
\* server holds the same list.
C15_Witness ==
    /\ timers = << >>
    /\ quotes.items = << defaultQuotes[3], carpe, defaultQuotes[1], defaultQuotes[2],
                         defaultQuotes[4], defaultQuotes[5] >>
    /\ serverQuotes = quotes

GoodFiles == { FestinaFile, EarlierExport }
Syncing == Notification("Syncing data...", "info")

\* C16: calls of syncQuotes are not serialized.  While a
\* call awaits its fetch or its push, a tick of the interval, a click on the
\* Sync button and a valid add are possible (up to MaxTimers pending timeouts,
\* MaxQuotes records and MaxRepeats copies of a pair), and each of them, and
\* each successful import, starts a call at once: the call announces itself
\* and its timeout is pending together with those of the calls in flight, none
\* of which is dropped.  A timeout that fires takes away no other timeout.
C16_SyncsNotSerialized ==
    [][/\ timers # << >>
            => /\ (IntervalTick \/ ClickSync)
                    => /\ timers' = Append(timers, Fetching("none"))
                       /\ notificationArea' = Syncing
               /\ \A typedText \in TypedTexts, typedCategory \in TypedCategories :
                    (/\ createAddQuoteForm(typedText, typedCategory)
                     /\ ~FieldsMissing(Trim(typedText), Trim(typedCategory)))
                        => /\ timers' = Append(timers, Fetching("add"))
                           /\ notificationArea' = Syncing
               /\ \A fileText \in GoodFiles :
                    ImportOf(fileText)
                        => /\ timers' = Append(timers, Fetching("import"))
                           /\ notificationArea' = Syncing
               /\ (Len(timers) < MaxTimers /\ syncInterval) => ENABLED IntervalTick
               /\ (Len(timers) < MaxTimers /\ Ready) => ENABLED ClickSync
               /\ (/\ Len(timers) < MaxTimers /\ Ready
                   /\ Len(quotes.items) < MaxQuotes
                   /\ Occurrences(quotes.items, carpe) < MaxRepeats)
                    => ENABLED createAddQuoteForm("Carpe diem", " Latin")
       /\ FetchMerges
            => /\ Len(timers') = Len(timers)
               /\ SubSeq(timers', 1, Len(timers) - 1) = Tail(timers)
       /\ PushCompletes => timers' = Tail(timers)]_vars

\* The call of an add awaits its push and a call started by the button or by
\* the interval after it awaits its fetch.
C16_Witness ==
    /\ Len(timers) = 2
    /\ timers[1].stage = "push" /\ timers[1].caller = "add"
    /\ timers[2].stage = "fetch" /\ timers[2].caller = "none"
    /\ notificationArea = Syncing

\* window.onload has run to its end and no timeout is pending: every
\* operation that was started has completed.
Quiescent == onload = "done" /\ timers = << >>

\* C17: under every interleaving of overlapping calls of syncQuotes, adds and
\* imports, no step takes a record out of the local list or moves one, and
\* whenever every operation in flight has completed the server list is the
\* local list, record by record.
C17_QuiescentListsAgree ==
    [][/\ IsPrefix(quotes.items, quotes'.items)
       /\ Quiescent' => serverQuotes' = quotes']_vars

\* Syncs, an add and an import have all completed: both lists hold the added
\* and the imported quote.
C17_Witness ==
    /\ Quiescent
    /\ Occurrences(quotes.items, carpe) > 0
    /\ Occurrences(quotes.items, festina) > 0
    /\ serverQuotes = quotes

(***************************************************************************)
(* Fair timers: a timeout that is due fires.  setTimeout callbacks run in  *)
(* the order of their deadlines, so the timeout at the head of the queue   *)
(* stays due until it has fired.                                           *)
(***************************************************************************)
\* The timeout at the head of the queue fires: it leaves the queue, and the
\* timeout of the push follows the one of a fetch.  In SyncSpec these are the
\* steps FetchMerges and PushCompletes.
HeadTimeoutFires ==
    /\ timers # << >>
    /\ \/ /\ Head(timers).stage = "fetch"
          /\ \E changes \in BOOLEAN :
                timers' = Append(Tail(timers), Pushing(Head(timers).caller, changes))
       \/ /\ Head(timers).stage = "push"
          /\ timers' = Tail(timers)

FairSyncSpec == SyncSpec /\ WF_timers(HeadTimeoutFires)

\* C18: under fair timers, whatever syncs are in flight, every quote that an
\* add or an import has appended to the local list is eventually in the server
\* list, as many times as the local list holds it.  Adds and imports are
\* possible once the page is ready, and the quotes they append are carpe and
\* festina.
C18_AppendedQuotesReachServer ==
    \A q \in { carpe, festina } : \A n \in 1..MaxRepeats :
        (Ready /\ Occurrences(quotes.items, q) >= n)
            ~> (Occurrences(serverQuotes.items, q) >= n)

\* The server list holds a quote that was added twice, or stored and added,
\* and an imported one.
C18_Witness ==
    /\ Occurrences(serverQuotes.items, carpe) = MaxRepeats
    /\ Occurrences(serverQuotes.items, festina) = 1

ServerIsPrefix == IsPrefix(serverQuotes.items, quotes.items)

\* C19: from the moment the first pushQuotesToServer of a page session has
\* completed, the server list is in every later state a prefix of the local
\* list, under every interleaving of syncs, adds and imports.  Every push
\* that completes, the first included, leaves the server list a prefix of the
\* local list; every step of the loaded page that starts with the server list
\* a prefix of the local list ends with it one; and when window.onload is
\* done, which it is from the first push on, the server list is one.
C19_ServerPrefixAfterFirstPush ==
    [][/\ PushCompletes => ServerIsPrefix'
       /\ (Ready /\ ServerIsPrefix) => ServerIsPrefix'
       /\ (PushCompletes /\ onload # "done") => onload' = "done"
       /\ onload = "done" => (ServerIsPrefix /\ onload' = "done")]_vars

\* After a push, the local list has grown by an add or an import whose sync
\* has not pushed yet: the server list is a proper prefix of it.
C19_Witness ==
    /\ onload = "done"
    /\ ServerIsPrefix
    /\ serverQuotes.items # << >>
    /\ Len(serverQuotes.items) < Len(quotes.items)

NoNewQuotes == Notification("Data synced. No new quotes from server.", "success")

\* C20: within one page session only the first merge to run can append records
\* to the local list; every later call of syncQuotes, by the interval, the
\* Sync button, an add or an import, overlapping or not, appends nothing and
\* ends on the 'No new quotes from server' branch.  The first merge to run is
\* the one of window.onload, whose timeout is at the head of the queue as long
\* as it is pending.
C20_OnlyFirstMergeAppends ==
    [][/\ \A k \in 1..Len(timers) :
            (timers[k].caller = "onload" /\ timers[k].stage = "fetch")
                => (k = 1 /\ \A j \in 2..Len(timers) : timers[j].stage = "fetch")
       /\ (FetchMerges /\ Head(timers).caller # "onload")
            => /\ quotes' = quotes
               /\ timers'[Len(timers')] = Pushing(Head(timers).caller, FALSE)
       /\ (PushCompletes /\ Head(timers).caller # "onload")
            => /\ ~Head(timers).changesDetected
               /\ notificationArea' = NoNewQuotes
               /\ quotes' = quotes]_vars

\* In a session that started from the stored list [carpe], the first merge
\* has appended the default quotes, and a later call has ended with nothing
\* new while another one is pending.
C20_Witness ==
    /\ onload = "done"
    /\ quotes.items = << carpe >> \o defaultQuotes
    /\ notificationArea = NoNewQuotes
    /\ timers # << >>

\* The value of JSON.parse on the text stored under the key 'quotes'.
PersistedQuotes ==
    IF localStorageQuotes.has /\ JSONparse(localStorageQuotes.val).ok
    THEN FromJson(JSONparse(localStorageQuotes.val).val)
    ELSE JsNull

\* C21: whenever no operation is in flight (window.onload, every add and every
\* sync have run to their end), the text stored under the key 'quotes' is
\* the text of an array that equals the list in memory, whatever the storage
\* held when the page loaded (nothing, a list, text that does not parse),
\* provided that writes to storage succeed.
C21_PersistedEqualsMemory ==
    (Quiescent /\ ~storageFails)
        => (quotes.kind = "array" /\ PersistedQuotes = quotes)

\* C22 as stated: a call of syncQuotes that ends in its failure branch, the
\* fetch having failed or the push having failed after the merge, leaves the
\* list in memory and the stored list as they were when the call started: the
\* failing step changes neither, and the merge of the call has changed
\* nothing (its changesDetected is false).
C22_FailedSyncLeavesBothLists ==
    [][/\ (FetchFails \/ PushFails)
            => (quotes' = quotes /\ localStorageQuotes' = localStorageQuotes)
       /\ PushFails => ~Head(timers).changesDetected]_vars

\* C22, amended: a call of syncQuotes that ends in its failure branch leaves
\* the stored list as it was when the call started.  When the fetch failed it
\* leaves the list in memory as well.  When the push failed after the merge,
\* the list in memory keeps the server records that the merge appended: the
\* merge step appends them (changesDetected tells whether it did) and stores
\* nothing, and the failing step changes neither list.
C22_FailedSyncLeavesStoredList ==
    [][/\ (FetchFails \/ PushFails)
            => (quotes' = quotes /\ localStorageQuotes' = localStorageQuotes)
       /\ FetchMerges
            => /\ localStorageQuotes' = localStorageQuotes
               /\ IsPrefix(quotes.items, quotes'.items)
               /\ timers'[Len(timers')].changesDetected <=> (quotes' # quotes)]_vars

\* The push of the start-up sync has failed after its merge had appended the
\* default quotes to the stored list [carpe]: memory holds six records, storage
\* the one.
C22_Witness ==
    /\ notificationArea = SyncFailed
    /\ timers = << >>
    /\ quotes.items = << carpe >> \o defaultQuotes
    /\ PersistedQuotes = JsArray(<< carpe >>)

\* A file that is an array of objects with a text and a category, and the
\* records it holds.
IsValidFile(fileText) ==
    JSONparse(fileText).ok /\ IsQuoteArray(JSONparse(fileText).val)
FileQuotes(fileText) == AsQuotes(JSONparse(fileText).val.items, 1)

\* C23: for a file that is a valid array of {text, category} objects, the
\* import appends to the list, in file order, the records of the file whose
\* pair is not in the list when the record is examined, which are the first
\* occurrences in the file of the pairs the list lacks; it keeps the records
\* of the list in place, stores the list and starts a sync.  After it every
\* pair of the file is in the list, so a second import of the file appends
\* nothing.
C23_ImportAppendsAbsentPairsOnce ==
    [][\A fileText \in ChoosableFiles :
          (IsValidFile(fileText) /\ quotes.kind = "array" /\ ImportOf(fileText))
            => /\ quotes'.items =
                    quotes.items
                        \o FirstOccurrences(AbsentLocally(quotes.items, FileQuotes(fileText)))
               /\ localStorageQuotes' = Item(JSONstringify(quotes', FALSE))
               /\ timers' = Append(timers, Fetching("import"))
               /\ AbsentLocally(quotes'.items, FileQuotes(fileText)) = << >>]_vars

\* The file festina, first default quote, festina has been imported into the
\* merged list: festina is appended once, the default quote is not appended,
\* the list is stored and the sync of the import is pending.
C23_Witness ==
    /\ ImportPending
    /\ quotes.items = Append(defaultQuotes, festina)
    /\ PersistedQuotes = quotes

(***************************************************************************)
(* The filter and the display: the two versions with a category select      *)
(* (part_000 and the version with the sync), with renders, changes of the  *)
(* select and adds.                                                        *)
(***************************************************************************)
FilterNext ==
    \/ EarlyLoad
    \/ EarlyShow
    \/ SelectCategory
    \/ EarlyAdd
    \/ WindowOnLoad
    \/ InitialSync
    \/ FetchMerges
    \/ PushCompletes
    \/ ClickAdd
    \/ ClickNewQuote
    \/ ChangeFilter

FilterSpec == (EarlyInit \/ InitIn({ FirstVisit, Returning })) /\ [][FilterNext]_vars

\* The steps that end with a call of showRandomQuote or displayRandomQuote.
Renders ==
    \/ ClickNewQuote
    \/ ChangeFilter
    \/ PushCompletes /\ (Head(timers).changesDetected \/ Head(timers).caller # "none")
    \/ EarlyShow /\ version = "part_000"

\* C24: when a category is selected (a filter other than 'all'), every render
\* shows a quote of the list that has that category, and shows the no-quotes
\* message, and no quote, when the list holds no quote of that category.
C24_RenderedQuoteHasSelectedCategory ==
    [][(Renders /\ categoryFilter'.value # "all")
            => IF FilterByCategory(quotes'.items, categoryFilter'.value) = << >>
               THEN quoteDisplay' = NoQuotesMessage
               ELSE /\ quoteDisplay'.kind = "quote"
                    /\ version = "sync" => quoteDisplay'.category = categoryFilter'.value
                    /\ \E k \in 1..Len(quotes'.items) :
                          /\ quotes'.items[k].category = categoryFilter'.value
                          /\ quotes'.items[k].text = quoteDisplay'.text]_vars

\* With the category Latin selected and the five default quotes in the list,
\* the quote carpe is displayed.
C24_Witness ==
    /\ version = "sync"
    /\ categoryFilter.value = "Latin"
    /\ Len(quotes.items) > 5
    /\ quoteDisplay = Rendered(carpe)

\* The stored text is the text of an array of quotes.
StoredValidArray ==
    /\ localStorageQuotes.has
    /\ JSONparse(localStorageQuotes.val).ok
    /\ IsQuoteArray(JSONparse(localStorageQuotes.val).val)

\* C25: loadQuotes on its normal paths.  When nothing is stored under the key
\* 'quotes', the list becomes the default list and the text of that list is
\* stored; when the text of an array of quotes is stored, the list becomes
\* that array, record by record (its text is the stored text), and the stored
\* text is left as it is.  Neither path reports an error.
C25_LoadQuotesNormalPaths ==
    [][(WindowOnLoad /\ ~storageFails)
            => /\ ~localStorageQuotes.has
                    => /\ quotes' = JsArray(defaultQuotes)
                       /\ localStorageQuotes' = Item(ArrayText(defaultQuotes))
                       /\ notificationArea' = notificationArea
               /\ StoredValidArray
                    => /\ quotes'.kind = "array"
                       /\ JSONstringify(quotes', FALSE) = localStorageQuotes.val
                       /\ localStorageQuotes' = localStorageQuotes
                       /\ notificationArea' = notificationArea]_vars

\* loadQuotes has run on nothing stored: the default quotes are in memory and
\* in storage, and the start-up sync has not started.
C25_Witness ==
    /\ onload = "loaded"
    /\ quotes = JsArray(defaultQuotes)
    /\ localStorageQuotes = Item(ArrayText(defaultQuotes))
    /\ notificationArea = Notification("", "")

(***************************************************************************)
(* The index of the last quote viewed, from tabs whose session storage     *)
(* holds no index, a stale one, one past the end of the list, or -1.       *)
(***************************************************************************)
IndexNext ==
    \/ WindowOnLoad
    \/ InitialSync
    \/ FetchMerges
    \/ PushCompletes
    \/ ClickAdd
    \/ ClickNewQuote
    \/ ChangeFilter

IndexSpec ==
    InitIn({ FirstVisit, IndexStale, IndexPastEnd, IndexMinusOne }) /\ [][IndexNext]_vars

\* C26: whenever showRandomQuote renders a quote, the index it uses is an index
\* of the list it indexes, whatever session storage held under
\* lastViewedQuoteIndex: the render does not throw and shows a record of the
\* list; and after a render with the filter 'all' the stored index is the
\* position in the list of the quote on display.
C26_RenderIndexInRange ==
    [][Renders
            => /\ uncaught' = uncaught
               /\ quoteDisplay'.kind = "quote"
               /\ \E k \in 1..Len(quotes'.items) : quoteDisplay' = Rendered(quotes'.items[k])
               /\ categoryFilter'.value = "all"
                    => /\ lastViewedQuoteIndex'.has
                       /\ lastViewedQuoteIndex'.val \in 0..(Len(quotes'.items) - 1)
                       /\ quoteDisplay' =
                              Rendered(quotes'.items[lastViewedQuoteIndex'.val + 1])]_vars

\* The tab held the index 1 and the stored list was [carpe]: after the merge
\* the index is one of the list, and the first default quote is on display.
C26_Witness ==
    /\ onload = "done"
    /\ categoryFilter.value = "all"
    /\ quotes.items[1] = carpe
    /\ lastViewedQuoteIndex = [has |-> TRUE, val |-> 1]
    /\ quoteDisplay = Rendered(defaultQuotes[1])

(***************************************************************************)
(* The remembered filter.  The file of this section holds a quote whose    *)
(* category is the empty string, which the test of line 547 accepts and    *)
(* the form of the page does not.                                          *)
(***************************************************************************)
unlabelled == Quote("Festina lente", "")
UnlabelledFile == ArrayText(<< unlabelled >>)

ImportUnlabelled == ImportOf(UnlabelledFile)

RememberNext ==
    \/ WindowOnLoad
    \/ InitialSync
    \/ FetchMerges
    \/ PushCompletes
    \/ ClickAdd
    \/ ChangeFilter
    \/ ImportUnlabelled

RememberSpec == InitIn({ FirstVisit, Returning }) /\ [][RememberNext]_vars

\* The steps in which populateCategories runs: a valid add, an import that
\* succeeds, the end of a sync that has merged, the end of window.onload.
Populates ==
    \/ ClickAdd /\ timers' # timers
    \/ ImportUnlabelled /\ timers' # timers
    \/ PushCompletes /\ (Head(timers).changesDetected \/ Head(timers).caller = "onload")

\* C27: the selected filter is remembered.  filterQuotes stores the selected
\* category; every populateCategories rebuilds the options as 'all' and the
\* distinct categories of the list, and selects the stored category when it
\* is 'all' or a category of the list, and 'all' otherwise; so the selected
\* filter is always 'all' or a category of the list.
C27_FilterRemembered ==
    [][/\ Populates
            => /\ categoryFilter'.options = Categories(quotes'.items)
               /\ categoryFilter'.value =
                      IF /\ lastSelectedCategory.has
                         /\ lastSelectedCategory.val \in {"all"} \cup Categories(quotes'.items)
                      THEN lastSelectedCategory.val
                      ELSE "all"
       /\ ChangeFilter
            => lastSelectedCategory' = [has |-> TRUE, val |-> categoryFilter'.value]
       /\ categoryFilter'.value \in {"all"} \cup Categories(quotes'.items)]_vars

====
